---- MODULE Spec2Model ----
(***************************************************************************)
(* AnyListDB: a GraphQL backend of shopping lists.  Users own Items and    *)
(* Lists, a ListItem joins one List with one Item, requests carry a JWT.   *)
(* The model keeps the relational store (users, items, lists, listItems),  *)
(* the tokens issued so far and the outcome of the most recent operation.  *)
(* Every service method is an operator from the store to a result and a    *)
(* new store; every GraphQL operation is an action that runs the guard,    *)
(* the role gate and the service method and records the outcome in `last`. *)
(***************************************************************************)
EXTENDS Integers, FiniteSets, Sequences, TLC

VARIABLES users, tokens, items, lists, listItems, seq, last, gateIn, calls

vars == <<users, tokens, items, lists, listItems, seq, last, gateIn, calls>>

(***************************************************************************)
(* Bounds.                                                                 *)
(***************************************************************************)
\* Items and Lists ever created in one run (ids are never reused).
MaxOwned == 2
\* ListItems ever created in one run.
MaxListItems == 2
\* Users ever created in one run.
MaxUsers == 2
\* Largest limit and offset asked of findAll.
MaxLimit == 2

(***************************************************************************)
(* Values.                                                                 *)
(***************************************************************************)
\* An optional input field or nullable column: Absent when it was not supplied
\* (or is NULL), Some(v) when it holds v.
Absent == <<>>

Some(v) == <<v>>

Opt(S) == {Absent} \cup {Some(v) : v \in S}
\* req.user when no guard attached an identity.
NoUser == <<>>
NoData == <<>>
NoArg == <<>>

ValidRoles == {"admin", "user", "superUser"}

Names == {"a", "b"}
Units == {"kg"}
OwnedIds == 1..MaxOwned
UserIds == 1..MaxUsers

(***************************************************************************)
(* Outcomes.  An exception is its kind, its message template and the value *)
(* interpolated into the message (ref for an id, str for text; 0 and ""    *)
(* when the message has none).                                             *)
(***************************************************************************)
Ok(data) == [kind |-> "Ok", tmpl |-> "", ref |-> 0, str |-> "", data |-> data]

Err(kind, tmpl, ref) ==
  [kind |-> kind, tmpl |-> tmpl, ref |-> ref, str |-> "", data |-> NoData]

ErrStr(kind, tmpl, str) ==
  [kind |-> kind, tmpl |-> tmpl, ref |-> 0, str |-> str, data |-> NoData]

\* What the caller sees of a failure: the error kind and the message.
Visible(res) == [kind |-> res.kind, tmpl |-> res.tmpl, ref |-> res.ref, str |-> res.str]

\* A TypeORM QueryFailedError that no handler maps: it leaves the resolver
\* as a plain Error, which the transport reports as an internal error.
QueryFailed(code) == ErrStr("Internal", "QueryFailedError", code)

UniqueViolation == "23505"
ForeignKeyViolation == "23503"

\* The record of an operation: its name, the requester, the id and input it
\* was given and how it ended.
Outcome(op, user, id, arg, res) ==
  [op |-> op, user |-> user, id |-> id, arg |-> arg, res |-> res]

\* The store with no record.
Empty == [k \in {} |-> NoData]

\* The store with one key dropped.
Without(f, id) == [k \in DOMAIN f \ {id} |-> f[k]]

\* The store with one key added or replaced.
With(f, id, v) == [k \in DOMAIN f \cup {id} |-> IF k = id THEN v ELSE f[k]]

\* Partial merge of one optional input field onto a stored value.
Merge(old, new) == IF new = Absent THEN old ELSE new[1]

\* The same for a nullable column, which stores the optional value itself.
MergeNullable(old, new) == IF new = Absent THEN old ELSE new

(***************************************************************************)
(* Authentication: AuthService, JwtStrategy, the CurrentUser decorator.    *)
(* A user row is [email, password, roles, isActive, lastUpdatedBy]; users  *)
(* maps the ids of the existing rows to them.                              *)
(***************************************************************************)
\* bcrypt.hashSync(p, 10) and bcrypt.compareSync(p, stored).
HashSync(p) == <<"bcrypt", p>>

CompareSync(p, stored) == stored = HashSync(p)

\* A user entity as a service returns it: the row with its id.
UserEntity(us, id) ==
  [id |-> id, email |-> us[id].email, password |-> us[id].password,
   roles |-> us[id].roles, isActive |-> us[id].isActive,
   lastUpdatedBy |-> us[id].lastUpdatedBy]

\* A lookup by findOneBy, which answers null for a missing row.
UsersService_findOneById_orNull(us, id) ==
  IF id \in DOMAIN us THEN Ok(UserEntity(us, id)) ELSE Ok(NoData)

UsersService_findOneById(us, id) ==
  IF id \in DOMAIN us
  THEN Ok(UserEntity(us, id))
  ELSE Err("NotFound", "${id} not found", id)

UsersService_findOneByEmail(us, email) ==
  IF \E id \in DOMAIN us : us[id].email = email
  THEN Ok(UserEntity(us, CHOOSE id \in DOMAIN us : us[id].email = email))
  ELSE ErrStr("NotFound", "${email} not found", email)

\* A validation that hands the entity on as it was loaded.
DeletePassword_kept(user) == user

\* delete user.password
DeletePassword(user) == [user EXCEPT !.password = <<>>]

\* A validateUser that does not look at isActive.
AuthService_validateUser_anyState(us, id) ==
  LET found == UsersService_findOneById(us, id) IN
  IF found.kind # "Ok" THEN found ELSE Ok(DeletePassword(found.data))

AuthService_validateUser(us, id) ==
  LET found == UsersService_findOneById(us, id) IN
  IF found.kind # "Ok" THEN found
  ELSE IF ~found.data.isActive
  THEN ErrStr("Unauthorized", "User is inactive, talk with an admin", "")
  ELSE Ok(DeletePassword(found.data))

JwtStrategy_validate(us, id) == AuthService_validateUser(us, id)

\* A gate that asks for every required role instead of any of them.
CurrentUser_everyRole(roles, user) ==
  IF user = NoUser
  THEN ErrStr("Internal",
              "No user inside the request - make sure that we used the AuthGuard", "")
  ELSE IF \A role \in roles : role \in user.roles THEN Ok(user)
  ELSE Err("Forbidden", "User ${user.fullName} need a valid role [${roles}]", user.id)

\* A gate that looks at the required roles before it looks for the user.
CurrentUser_rolesFirst(roles, user) ==
  IF roles = {} THEN Ok(user)
  ELSE IF user = NoUser
  THEN ErrStr("Internal",
              "No user inside the request - make sure that we used the AuthGuard", "")
  ELSE IF \E role \in user.roles : role \in roles THEN Ok(user)
  ELSE Err("Forbidden", "User ${user.fullName} need a valid role [${roles}]", user.id)

\* A gate that is content with a user who holds any role at all.
CurrentUser_anyRole(roles, user) ==
  IF user = NoUser
  THEN ErrStr("Internal",
              "No user inside the request - make sure that we used the AuthGuard", "")
  ELSE IF roles = {} \/ user.roles # {} THEN Ok(user)
  ELSE Err("Forbidden", "User ${user.fullName} need a valid role [${roles}]", user.id)

\* The role gate: roles are the roles the operation requires, user is
\* req.user (NoUser when no guard attached one).
CurrentUser(roles, user) ==
  IF user = NoUser
  THEN ErrStr("Internal",
              "No user inside the request - make sure that we used the AuthGuard", "")
  ELSE IF roles = {} THEN Ok(user)
  ELSE IF \E role \in user.roles : role \in roles THEN Ok(user)
  ELSE Err("Forbidden", "User ${user.fullName} need a valid role [${roles}]", user.id)

\* A guarded resolver argument: JwtAuthGuard runs the strategy on the token's
\* payload id and attaches its result as req.user, then the decorator runs.
Authorize(us, tokenId, roles) ==
  LET v == JwtStrategy_validate(us, tokenId) IN
  IF v.kind # "Ok" THEN v ELSE CurrentUser(roles, v.data)

(***************************************************************************)
(* ListsService.  A list row is [name, user]; lists maps the ids of the    *)
(* existing rows to them.  Each mutating method yields [res, lists].       *)
(***************************************************************************)
ListEntity(ls, id) == [id |-> id, name |-> ls[id].name, user |-> ls[id].user]

CreateListInputs == [name : Names]

UpdateListInputs == [id : OwnedIds, name : Opt(Names)]

ListsService_create(ls, newId, createListInput, user) ==
  LET row == [name |-> createListInput.name, user |-> user] IN
  [res |-> Ok([id |-> newId, name |-> row.name, user |-> user]),
   lists |-> With(ls, newId, row)]

\* findOne without the owner filter.
ListsService_findOne_anyOwner(ls, id, user) ==
  IF id \in DOMAIN ls
  THEN Ok(ListEntity(ls, id))
  ELSE Err("NotFound", "List with id: ${id} not found", id)

ListsService_findOne(ls, id, user) ==
  IF id \in DOMAIN ls /\ ls[id].user = user
  THEN Ok(ListEntity(ls, id))
  ELSE Err("NotFound", "List with id: ${id} not found", id)

\* An update that saves the row under the requester.
ListsService_update_newOwner(ls, id, updateListInput, user) ==
  LET found == ListsService_findOne(ls, id, user) IN
  IF found.kind # "Ok" THEN [res |-> found, lists |-> ls]
  ELSE IF updateListInput.id \notin DOMAIN ls
  THEN [res |-> Err("NotFound", "Item with id: ${id} not found", id), lists |-> ls]
  ELSE LET old == ls[updateListInput.id]
           row == [name |-> Merge(old.name, updateListInput.name), user |-> user]
       IN [res |-> Ok([id |-> updateListInput.id, name |-> row.name, user |-> row.user]),
           lists |-> With(ls, updateListInput.id, row)]

\* listRepository.preload(updateListInput): the row with the INPUT's id,
\* whoever owns it, with the supplied fields merged onto it.
ListsService_update(ls, id, updateListInput, user) ==
  LET found == ListsService_findOne(ls, id, user) IN
  IF found.kind # "Ok" THEN [res |-> found, lists |-> ls]
  ELSE IF updateListInput.id \notin DOMAIN ls
  THEN [res |-> Err("NotFound", "Item with id: ${id} not found", id), lists |-> ls]
  ELSE LET old == ls[updateListInput.id]
           row == [name |-> Merge(old.name, updateListInput.name), user |-> old.user]
       IN [res |-> Ok([id |-> updateListInput.id, name |-> row.name, user |-> row.user]),
           lists |-> With(ls, updateListInput.id, row)]

\* A remove on a table that no foreign key points at.
ListsService_remove_noForeignKey(ls, lis, id, user) ==
  LET found == ListsService_findOne(ls, id, user) IN
  IF found.kind # "Ok" THEN [res |-> found, lists |-> ls]
  ELSE [res |-> Ok([found.data EXCEPT !.id = id]), lists |-> Without(ls, id)]

\* listRepository.remove(list): the DELETE is refused by the foreign key of
\* listItems.list while a ListItem references the list.
ListsService_remove(ls, lis, id, user) ==
  LET found == ListsService_findOne(ls, id, user) IN
  IF found.kind # "Ok" THEN [res |-> found, lists |-> ls]
  ELSE IF \E k \in DOMAIN lis : lis[k].list = id
  THEN [res |-> QueryFailed(ForeignKeyViolation), lists |-> ls]
  ELSE [res |-> Ok([found.data EXCEPT !.id = id]), lists |-> Without(ls, id)]

\* A count without the user condition.
ListsService_listCountByUser_everyList(ls, user) == Cardinality(DOMAIN ls)

ListsService_listCountByUser(ls, user) ==
  Cardinality({id \in DOMAIN ls : ls[id].user = user})

(***************************************************************************)
(* ItemsService.  An item row is [name, quantityUnits, user].              *)
(***************************************************************************)
ItemEntity(its, id) ==
  [id |-> id, name |-> its[id].name, quantityUnits |-> its[id].quantityUnits,
   user |-> its[id].user]

CreateItemInputs == [name : Names, quantityUnits : Opt(Units)]

UpdateItemInputs ==
  [id : OwnedIds, name : Opt(Names), quantityUnits : Opt(Units)]

ItemsService_create(its, newId, createItemInput, user) ==
  LET row == [name |-> createItemInput.name,
              quantityUnits |-> createItemInput.quantityUnits, user |-> user]
  IN [res |-> Ok([id |-> newId, name |-> row.name,
                  quantityUnits |-> row.quantityUnits, user |-> user]),
      items |-> With(its, newId, row)]

\* findOne that tells a foreign record from a missing one.
ItemsService_findOne_forbidden(its, id, user) ==
  IF id \in DOMAIN its /\ its[id].user = user
  THEN Ok(ItemEntity(its, id))
  ELSE IF id \in DOMAIN its
  THEN Err("Forbidden", "Item with id: ${id} belongs to another user", id)
  ELSE Err("NotFound", "Item with id: ${id} not found", id)

ItemsService_findOne(its, id, user) ==
  IF id \in DOMAIN its /\ its[id].user = user
  THEN Ok(ItemEntity(its, id))
  ELSE Err("NotFound", "Item with id: ${id} not found", id)

ItemsService_update(its, id, updateItemInput, user) ==
  LET found == ItemsService_findOne(its, id, user) IN
  IF found.kind # "Ok" THEN [res |-> found, items |-> its]
  ELSE IF updateItemInput.id \notin DOMAIN its
  THEN [res |-> Err("NotFound", "Item with id: ${id} not found", id), items |-> its]
  ELSE LET old == its[updateItemInput.id]
           row == [name |-> Merge(old.name, updateItemInput.name),
                   quantityUnits |-> MergeNullable(old.quantityUnits,
                                                  updateItemInput.quantityUnits),
                   user |-> old.user]
       IN [res |-> Ok([id |-> updateItemInput.id, name |-> row.name,
                       quantityUnits |-> row.quantityUnits, user |-> row.user]),
           items |-> With(its, updateItemInput.id, row)]

ItemsService_remove(its, lis, id, user) ==
  LET found == ItemsService_findOne(its, id, user) IN
  IF found.kind # "Ok" THEN [res |-> found, items |-> its]
  ELSE IF \E k \in DOMAIN lis : lis[k].item = id
  THEN [res |-> QueryFailed(ForeignKeyViolation), items |-> its]
  ELSE [res |-> Ok([found.data EXCEPT !.id = id]), items |-> Without(its, id)]

ItemsService_itemCountByUser(its, user) ==
  Cardinality({id \in DOMAIN its : its[id].user = user})

(***************************************************************************)
(* ListItemService.  A listItem row is [quantity, completed, list, item];  *)
(* the table has a unique constraint on (list, item) and a foreign key on  *)
(* each of the two columns.                                                *)
(***************************************************************************)
Quantities == {0, 2}
ListItemIds == 1..MaxListItems
\* The lists and items a ListItem input can name.
RefIds == {1, 2}

\* What a promise of findOneBy resolves to when no row matches.
Null == [null |-> TRUE]

ListItemEntity(lis, id) ==
  [id |-> id, quantity |-> lis[id].quantity, completed |-> lis[id].completed,
   list |-> lis[id].list, item |-> lis[id].item]

\* quantity = 0 and completed = false are the class's field initialisers.
CreateListItemInputs ==
  [quantity : Quantities, completed : BOOLEAN, listId : RefIds, itemId : RefIds]

\* The inputs that leave quantity and completed to the initialisers.
DefaultListItemInputs ==
  {input \in CreateListItemInputs : input.quantity = 0 /\ ~input.completed}

\* Every field but id is optional; the inputs tried set quantity to 2,
\* completed to true and re-point list and item, each or not.
UpdateListItemInputs ==
  [id : ListItemIds, quantity : Opt({2}), completed : Opt({TRUE}),
   listId : Opt(RefIds), itemId : Opt(RefIds)]

\* A table without the 'listItem-item' constraint.
PairTaken_noConstraint(lis, self, listId, itemId) == FALSE

\* @Unique('listItem-item', ['list', 'item']): some row other than `self`
\* already holds the pair.
PairTaken(lis, self, listId, itemId) ==
  \E k \in DOMAIN lis \ {self} : lis[k].list = listId /\ lis[k].item = itemId

\* findOneBy is not awaited: listItem is a promise, never falsy, so the
\* method never throws and resolves to the row or to null.
ListItemService_findOne(lis, id) ==
  IF id \in DOMAIN lis THEN Ok(ListItemEntity(lis, id)) ELSE Ok(Null)

\* A create whose save() writes over the row that holds the pair.
ListItemService_create_upsert(lis, ls, its, newId, createListItemInput) ==
  LET row == [quantity |-> createListItemInput.quantity,
              completed |-> createListItemInput.completed,
              list |-> createListItemInput.listId,
              item |-> createListItemInput.itemId]
      held == {k \in DOMAIN lis : lis[k].list = row.list /\ lis[k].item = row.item}
  IN IF row.list \notin DOMAIN ls \/ row.item \notin DOMAIN its
     THEN [res |-> QueryFailed(ForeignKeyViolation), listItems |-> lis]
     ELSE IF held # {}
     THEN [res |-> QueryFailed(UniqueViolation),
           listItems |-> [k \in DOMAIN lis |-> IF k \in held THEN row ELSE lis[k]]]
     ELSE [res |-> Ok(ListItemEntity(With(lis, newId, row), newId)),
           listItems |-> With(lis, newId, row)]

\* save() of an entity without id is one INSERT; the database refuses it on
\* a dangling list or item and on a (list, item) pair that a row already
\* holds, atomically with respect to other inserts.
ListItemsRepository_save(lis, ls, its, newId, createListItemInput) ==
  LET row == [quantity |-> createListItemInput.quantity,
              completed |-> createListItemInput.completed,
              list |-> createListItemInput.listId,
              item |-> createListItemInput.itemId]
  IN IF row.list \notin DOMAIN ls \/ row.item \notin DOMAIN its
     THEN [res |-> QueryFailed(ForeignKeyViolation), listItems |-> lis]
     ELSE IF PairTaken(lis, newId, row.list, row.item)
     THEN [res |-> QueryFailed(UniqueViolation), listItems |-> lis]
     ELSE [res |-> Ok(newId), listItems |-> With(lis, newId, row)]

\* await save(newListItem), then findOne(newListItem.id).
ListItemService_create(lis, ls, its, newId, createListItemInput) ==
  LET saved == ListItemsRepository_save(lis, ls, its, newId, createListItemInput)
  IN IF saved.res.kind # "Ok" THEN saved
     ELSE [res |-> ListItemService_findOne(saved.listItems, newId),
           listItems |-> saved.listItems]

\* An update on a table without the 'listItem-item' constraint.
ListItemService_update_noUnique(lis, ls, its, id, updateListItemInput) ==
  IF id \notin DOMAIN lis
  THEN [res |-> Ok(Null), listItems |-> lis]
  ELSE LET old == lis[id]
           row == [quantity |-> Merge(old.quantity, updateListItemInput.quantity),
                   completed |-> Merge(old.completed, updateListItemInput.completed),
                   list |-> Merge(old.list, updateListItemInput.listId),
                   item |-> Merge(old.item, updateListItemInput.itemId)]
           after == With(Without(lis, id), id, row)
       IN IF row.list \notin DOMAIN ls \/ row.item \notin DOMAIN its
          THEN [res |-> QueryFailed(ForeignKeyViolation), listItems |-> lis]
          ELSE [res |-> Ok(ListItemEntity(after, id)), listItems |-> after]

\* An UPDATE whose SET clause leaves out the list and item relations.
ListItemsRepository_update_noRelations(lis, ls, its, id, updateListItemInput) ==
  IF id \notin DOMAIN lis
  THEN [res |-> Ok(0), listItems |-> lis]
  ELSE LET old == lis[id]
           row == [quantity |-> Merge(old.quantity, updateListItemInput.quantity),
                   completed |-> Merge(old.completed, updateListItemInput.completed),
                   list |-> old.list,
                   item |-> old.item]
       IN [res |-> Ok(1),
           listItems |-> With(Without(lis, id), updateListItemInput.id, row)]

\* UPDATE listItems SET ...rest, list, item WHERE id = :id, as one statement;
\* rest holds the input's own id next to quantity and completed.  It answers
\* with the number of rows it wrote.
ListItemsRepository_update(lis, ls, its, id, updateListItemInput) ==
  IF id \notin DOMAIN lis
  THEN [res |-> Ok(0), listItems |-> lis]
  ELSE LET old == lis[id]
           newKey == updateListItemInput.id
           row == [quantity |-> Merge(old.quantity, updateListItemInput.quantity),
                   completed |-> Merge(old.completed, updateListItemInput.completed),
                   list |-> Merge(old.list, updateListItemInput.listId),
                   item |-> Merge(old.item, updateListItemInput.itemId)]
           after == With(Without(lis, id), newKey, row)
       IN IF row.list \notin DOMAIN ls \/ row.item \notin DOMAIN its
          THEN [res |-> QueryFailed(ForeignKeyViolation), listItems |-> lis]
          ELSE IF newKey \in DOMAIN lis \ {id} \/ PairTaken(lis, id, row.list, row.item)
          THEN [res |-> QueryFailed(UniqueViolation), listItems |-> lis]
          ELSE [res |-> Ok(1), listItems |-> after]

\* await queryBuilder.execute(), then findOne(id).
ListItemService_update(lis, ls, its, id, updateListItemInput) ==
  LET written == ListItemsRepository_update(lis, ls, its, id, updateListItemInput)
  IN IF written.res.kind # "Ok" THEN written
     ELSE [res |-> ListItemService_findOne(written.listItems, id),
           listItems |-> written.listItems]

ListItemService_countListItemByList(lis, listId) ==
  Cardinality({k \in DOMAIN lis : lis[k].list = listId})

(***************************************************************************)
(* The GraphQL operations on ListItems: behind JwtAuthGuard, with no       *)
(* CurrentUser argument.                                                   *)
(***************************************************************************)
createListItem(tok, createListItemInput) ==
  /\ tok \in tokens
  /\ seq.listItem < MaxListItems
  /\ LET auth == JwtStrategy_validate(users, tok)
         newId == seq.listItem + 1
         out == IF auth.kind = "Ok"
                THEN ListItemService_create(listItems, lists, items, newId,
                                            createListItemInput)
                ELSE [res |-> auth, listItems |-> listItems]
     IN /\ listItems' = out.listItems
        /\ seq' = IF out.listItems # listItems
                  THEN [seq EXCEPT !.listItem = newId] ELSE seq
        /\ last' = Outcome("createListItem", tok, 0, createListItemInput, out.res)
  /\ UNCHANGED <<users, tokens, items, lists, gateIn, calls>>

\* A listItem query that answers only the owner of the ListItem's list.
listItem_ownedList(tok, id) ==
  /\ tok \in tokens
  /\ LET auth == JwtStrategy_validate(users, tok)
         res == IF auth.kind # "Ok" THEN auth
                ELSE IF id \in DOMAIN listItems /\ lists[listItems[id].list].user # tok
                THEN Err("NotFound", "List item with id: ${id} not found", id)
                ELSE ListItemService_findOne(listItems, id)
     IN last' = Outcome("listItem", tok, id, NoArg, res)
  /\ UNCHANGED <<users, tokens, items, lists, listItems, seq, gateIn, calls>>

listItem(tok, id) ==
  /\ tok \in tokens
  /\ LET auth == JwtStrategy_validate(users, tok)
         res == IF auth.kind = "Ok" THEN ListItemService_findOne(listItems, id) ELSE auth
     IN last' = Outcome("listItem", tok, id, NoArg, res)
  /\ UNCHANGED <<users, tokens, items, lists, listItems, seq, gateIn, calls>>

\* An instance of UpdateListItemInput: PartialType(CreateListItemInput) runs
\* the initialisers of CreateListItemInput (quantity = 0, completed = false)
\* in its constructor, and the fields that were sent are assigned over them.
UpdateListItemInput_instance(sent) ==
  [sent EXCEPT !.quantity = IF @ = Absent THEN Some(0) ELSE @,
               !.completed = IF @ = Absent THEN Some(FALSE) ELSE @]

\* What the resolver receives for the argument that was sent: the object as
\* sent, or an instance of the input class, as the application's validation
\* pipe is set up.
UpdateListItemArgs(sent) == {sent, UpdateListItemInput_instance(sent)}

updateListItem(tok, updateListItemInput) ==
  /\ tok \in tokens
  /\ \E received \in UpdateListItemArgs(updateListItemInput) :
       LET auth == JwtStrategy_validate(users, tok)
           out == IF auth.kind = "Ok"
                  THEN ListItemService_update(listItems, lists, items,
                                              received.id, received)
                  ELSE [res |-> auth, listItems |-> listItems]
       IN /\ listItems' = out.listItems
          /\ last' = Outcome("updateListItem", tok, updateListItemInput.id,
                             updateListItemInput, out.res)
  /\ UNCHANGED <<users, tokens, items, lists, seq, gateIn, calls>>

(***************************************************************************)
(* createListItem as the steps that requests in flight interleave: the     *)
(* guard and the building of the entity, the INSERT of save(), and the     *)
(* SELECT of findOne.  calls[r] is the position of request r.              *)
(***************************************************************************)
Requests == {1, 2}

Call(pc, tok, arg, id, at, res) ==
  [pc |-> pc, tok |-> tok, arg |-> arg, id |-> id, at |-> at, res |-> res]

\* The executeSeed request, next to the createListItem requests.
SeedRequest == 0

NoCalls ==
  [r \in Requests \cup {SeedRequest} |-> Call("idle", 0, NoArg, 0, "", NoData)]

\* The request arrives: JwtAuthGuard runs, create() builds the entity.
createListItemBegin(r, tok, createListItemInput) ==
  /\ calls[r].pc = "idle"
  /\ tok \in tokens
  /\ LET auth == JwtStrategy_validate(users, tok) IN
     IF auth.kind = "Ok"
     THEN /\ calls' = [calls EXCEPT ![r] =
                         Call("save", tok, createListItemInput, 0, "", NoData)]
          /\ UNCHANGED last
     ELSE /\ calls' = [calls EXCEPT ![r] =
                         Call("done", tok, createListItemInput, 0, "guard", auth)]
          /\ last' = Outcome("createListItem", tok, 0, createListItemInput, auth)
  /\ UNCHANGED <<users, tokens, items, lists, listItems, seq, gateIn>>

\* await this.listItemsRepository.save(newListItem)
createListItemSave(r) ==
  /\ calls[r].pc = "save"
  /\ seq.listItem < MaxListItems
  /\ LET c == calls[r]
         newId == seq.listItem + 1
         saved == ListItemsRepository_save(listItems, lists, items, newId, c.arg)
     IN IF saved.res.kind = "Ok"
        THEN /\ listItems' = saved.listItems
             /\ seq' = [seq EXCEPT !.listItem = newId]
             /\ calls' = [calls EXCEPT ![r] =
                            Call("findOne", c.tok, c.arg, newId, "", NoData)]
             /\ UNCHANGED last
        ELSE /\ calls' = [calls EXCEPT ![r] =
                            Call("done", c.tok, c.arg, 0, "save", saved.res)]
             /\ last' = Outcome("createListItem", c.tok, 0, c.arg, saved.res)
             /\ UNCHANGED <<listItems, seq>>
  /\ UNCHANGED <<users, tokens, items, lists, gateIn>>

\* return this.findOne(newListItem.id)
createListItemFindOne(r) ==
  /\ calls[r].pc = "findOne"
  /\ LET c == calls[r]
         res == ListItemService_findOne(listItems, c.id)
     IN /\ calls' = [calls EXCEPT ![r] = Call("done", c.tok, c.arg, c.id, "findOne", res)]
        /\ last' = Outcome("createListItem", c.tok, 0, c.arg, res)
  /\ UNCHANGED <<users, tokens, items, lists, listItems, seq, gateIn>>

(***************************************************************************)
(* updateListItem as the steps that requests in flight interleave: the     *)
(* guard, the UPDATE of execute(), and the SELECT of findOne.  arg is the   *)
(* input as the resolver received it.                                      *)
(***************************************************************************)
updateListItemBegin(r, tok, updateListItemInput) ==
  /\ calls[r].pc = "idle"
  /\ tok \in tokens
  /\ \E received \in UpdateListItemArgs(updateListItemInput) :
       LET auth == JwtStrategy_validate(users, tok) IN
       IF auth.kind = "Ok"
       THEN /\ calls' = [calls EXCEPT ![r] =
                           Call("execute", tok, received, received.id, "", NoData)]
            /\ UNCHANGED last
       ELSE /\ calls' = [calls EXCEPT ![r] =
                           Call("done", tok, received, received.id, "guard", auth)]
            /\ last' = Outcome("updateListItem", tok, received.id, updateListItemInput, auth)
  /\ UNCHANGED <<users, tokens, items, lists, listItems, seq, gateIn>>

\* await queryBuilder.execute()
updateListItemExecute(r) ==
  /\ calls[r].pc = "execute"
  /\ LET c == calls[r]
         written == ListItemsRepository_update(listItems, lists, items, c.id, c.arg)
     IN /\ listItems' = written.listItems
        /\ IF written.res.kind = "Ok"
           THEN /\ calls' = [calls EXCEPT ![r] =
                               Call("findOne", c.tok, c.arg, c.id, "", NoData)]
                /\ UNCHANGED last
           ELSE /\ calls' = [calls EXCEPT ![r] =
                               Call("done", c.tok, c.arg, c.id, "execute", written.res)]
                /\ last' = Outcome("updateListItem", c.tok, c.id, c.arg, written.res)
  /\ UNCHANGED <<users, tokens, items, lists, seq, gateIn>>

\* return this.findOne(id)
updateListItemFindOne(r) ==
  /\ calls[r].pc = "findOne"
  /\ LET c == calls[r]
         res == ListItemService_findOne(listItems, c.id)
     IN /\ calls' = [calls EXCEPT ![r] = Call("done", c.tok, c.arg, c.id, "findOne", res)]
        /\ last' = Outcome("updateListItem", c.tok, c.id, c.arg, res)
  /\ UNCHANGED <<users, tokens, items, lists, listItems, seq, gateIn>>

(***************************************************************************)
(* findAll: pagination and search.  The queries carry no ORDER BY, so the  *)
(* database may hand the matching rows to LIMIT / OFFSET in any order; a   *)
(* findAll operator is the set of the pages the query can return.          *)
(***************************************************************************)
\* PaginationArgs (@Min(1) limit, @Min(0) offset) and SearchArgs.
PaginationArgs == [limit : 1..MaxLimit, offset : 0..MaxLimit]

SearchArgs == [search : Opt({"", "A", "_"})]

\* The search arguments that the queries are run with.
SearchArgsTried == [search : Opt({"A", "_"})]

\* The characters of the names and search terms in use.
Chars(str) ==
  CASE str = "" -> <<>>
    [] str = "a" -> <<"a">>
    [] str = "b" -> <<"b">>
    [] str = "A" -> <<"A">>
    [] str = "_" -> <<"_">>

\* LOWER(...) and String.prototype.toLowerCase.
ToLowerCase(chars) == [i \in DOMAIN chars |-> IF chars[i] = "A" THEN "a" ELSE chars[i]]

\* SQL LIKE: % stands for any run of characters, _ for any one character.
RECURSIVE Like(_, _)
Like(text, pattern) ==
  IF pattern = <<>> THEN text = <<>>
  ELSE IF Head(pattern) = "%"
  THEN Like(text, Tail(pattern)) \/ (text # <<>> /\ Like(Tail(text), pattern))
  ELSE /\ text # <<>>
       /\ (Head(pattern) = "_" \/ Head(pattern) = Head(text))
       /\ Like(Tail(text), Tail(pattern))

\* if (search) andWhere('LOWER(name) LIKE :name', `%${search.toLowerCase()}%`)
NameMatches(name, searchArgs) ==
  IF searchArgs.search = Absent \/ searchArgs.search = Some("") THEN TRUE
  ELSE Like(ToLowerCase(Chars(name)),
            <<"%">> \o ToLowerCase(Chars(searchArgs.search[1])) \o <<"%">>)

\* The orders in which the database may produce a set of rows.
Orders(ids) ==
  {order \in [1..Cardinality(ids) -> ids] :
     \A i, j \in 1..Cardinality(ids) : order[i] = order[j] => i = j}

\* OFFSET n and LIMIT n.
RECURSIVE Skip(_, _)
Skip(rows, n) == IF n = 0 \/ rows = <<>> THEN rows ELSE Skip(Tail(rows), n - 1)

RECURSIVE Take(_, _)
Take(rows, n) ==
  IF n = 0 \/ rows = <<>> THEN <<>> ELSE <<Head(rows)>> \o Take(Tail(rows), n - 1)

\* The pages that take(limit).skip(offset) can give on the matching rows.
Pages(ids, paginationArgs) ==
  {Take(Skip(order, paginationArgs.offset), paginationArgs.limit) : order \in Orders(ids)}

\* where('lists.userId = :userId') and the name filter.
ListsMatching(ls, user, searchArgs) ==
  {id \in DOMAIN ls : ls[id].user = user /\ NameMatches(ls[id].name, searchArgs)}

\* A findAll without the userId condition.
ListsService_findAll_anyOwner(ls, user, paginationArgs, searchArgs) ==
  {[i \in DOMAIN page |-> ListEntity(ls, page[i])] :
     page \in Pages({id \in DOMAIN ls : NameMatches(ls[id].name, searchArgs)},
                    paginationArgs)}

\* A findAll that reads offset as a page number.
ListsService_findAll_pageNumber(ls, user, paginationArgs, searchArgs) ==
  {[i \in DOMAIN page |-> ListEntity(ls, page[i])] :
     page \in Pages(ListsMatching(ls, user, searchArgs),
                    [paginationArgs EXCEPT !.offset = @ * paginationArgs.limit])}

ListsService_findAll(ls, user, paginationArgs, searchArgs) ==
  {[i \in DOMAIN page |-> ListEntity(ls, page[i])] :
     page \in Pages(ListsMatching(ls, user, searchArgs), paginationArgs)}

ItemsMatching(its, user, searchArgs) ==
  {id \in DOMAIN its : its[id].user = user /\ NameMatches(its[id].name, searchArgs)}

ItemsService_findAll(its, user, paginationArgs, searchArgs) ==
  {[i \in DOMAIN page |-> ItemEntity(its, page[i])] :
     page \in Pages(ItemsMatching(its, user, searchArgs), paginationArgs)}

\* innerJoin('listItem.item', 'item'), where "listId" = :listId, and the
\* name filter on item.name.
ListItemsMatching(lis, its, listId, searchArgs) ==
  {id \in DOMAIN lis : /\ lis[id].list = listId
                       /\ lis[id].item \in DOMAIN its
                       /\ NameMatches(its[lis[id].item].name, searchArgs)}

ListItemService_findAll(lis, its, listId, paginationArgs, searchArgs) ==
  {[i \in DOMAIN page |-> ListItemEntity(lis, page[i])] :
     page \in Pages(ListItemsMatching(lis, its, listId, searchArgs), paginationArgs)}

\* The arguments of a findAll as the outcome records them.
FindArgs(paginationArgs, searchArgs) ==
  [limit |-> paginationArgs.limit, offset |-> paginationArgs.offset,
   search |-> searchArgs.search]

\* The `lists` query (ListsResolver.findAll).
listsFindAll(tok, paginationArgs, searchArgs) ==
  /\ tok \in tokens
  /\ LET auth == Authorize(users, tok, {})
         answers == IF auth.kind = "Ok"
                    THEN {Ok(page) : page \in ListsService_findAll(
                                       lists, auth.data.id, paginationArgs, searchArgs)}
                    ELSE {auth}
     IN \E res \in answers :
          last' = Outcome("lists", tok, 0, FindArgs(paginationArgs, searchArgs), res)
  /\ UNCHANGED <<users, tokens, items, lists, listItems, seq, gateIn, calls>>

\* The `items` query (ItemsResolver.findAll).
itemsFindAll(tok, paginationArgs, searchArgs) ==
  /\ tok \in tokens
  /\ LET auth == Authorize(users, tok, {})
         answers == IF auth.kind = "Ok"
                    THEN {Ok(page) : page \in ItemsService_findAll(
                                       items, auth.data.id, paginationArgs, searchArgs)}
                    ELSE {auth}
     IN \E res \in answers :
          last' = Outcome("items", tok, 0, FindArgs(paginationArgs, searchArgs), res)
  /\ UNCHANGED <<users, tokens, items, lists, listItems, seq, gateIn, calls>>

\* The `items` field of a List that the list or lists query has returned to
\* the requester (ListsResolver.getListItems).
getListItems(tok, listId, paginationArgs, searchArgs) ==
  /\ tok \in tokens
  /\ LET auth == Authorize(users, tok, {})
         parent == IF auth.kind = "Ok"
                   THEN ListsService_findOne(lists, listId, auth.data.id)
                   ELSE auth
         answers == IF parent.kind = "Ok"
                    THEN {Ok(page) : page \in ListItemService_findAll(
                                       listItems, items, listId, paginationArgs, searchArgs)}
                    ELSE {parent}
     IN \E res \in answers :
          last' = Outcome("list.items", tok, listId,
                          FindArgs(paginationArgs, searchArgs), res)
  /\ UNCHANGED <<users, tokens, items, lists, listItems, seq, gateIn, calls>>

(***************************************************************************)
(* UsersService and AuthService.  A token is the id in its payload; tokens *)
(* holds the ids for which a token has been signed.  Tokens do not expire  *)
(* within a run.                                                           *)
(***************************************************************************)
Emails == {"e1", "e2", "e3"}
Passwords == {"p1", "p2"}

SignUpInputs == [email : Emails, password : {"p1"}]

LoginInputs == [email : Emails, password : Passwords]

\* The id and the optional fields that an admin may set on a user.
UpdateUserInputs ==
  [id : UserIds, email : Opt({"e1"}), roles : Opt({{"admin"}, {"superUser"}}),
   isActive : Opt(BOOLEAN)]

\* A user as signup stores it.
NewUser(email, password) ==
  [email |-> email, password |-> HashSync(password), roles |-> {"user"},
   isActive |-> TRUE, lastUpdatedBy |-> 0]

\* A handler that knows no error code.
handleDBErrors_anyCode(code, detail) ==
  ErrStr("Internal", "Please check server logs", "")

\* handleDBErrors: a unique violation becomes a BadRequest that carries the
\* database's detail, anything else an Internal error.
handleDBErrors(code, detail) ==
  IF code = UniqueViolation
  THEN ErrStr("BadRequest", "${error.detail}", detail)
  ELSE ErrStr("Internal", "Please check server logs", "")

\* The unique constraint on users.email: a row other than `self` holds it.
EmailTaken(us, self, email) ==
  \E id \in DOMAIN us \ {self} : us[id].email = email

UsersService_create(us, newId, signUpInput) ==
  IF EmailTaken(us, newId, signUpInput.email)
  THEN [res |-> handleDBErrors(UniqueViolation, signUpInput.email), users |-> us]
  ELSE LET after == With(us, newId, NewUser(signUpInput.email, signUpInput.password))
       IN [res |-> Ok(UserEntity(after, newId)), users |-> after]

\* preload({...updateUserInput, id}); the NotFoundException for a missing row
\* is thrown inside the try block and goes through handleDBErrors, as does
\* the error of a save that the email constraint refuses.
UsersService_update(us, id, updateUserInput, updatedBy) ==
  IF id \notin DOMAIN us
  THEN [res |-> handleDBErrors("", ""), users |-> us]
  ELSE LET row == [us[id] EXCEPT
                     !.email = Merge(@, updateUserInput.email),
                     !.roles = Merge(@, updateUserInput.roles),
                     !.isActive = Merge(@, updateUserInput.isActive),
                     !.lastUpdatedBy = updatedBy.id]
           after == With(us, id, row)
       IN IF EmailTaken(us, id, row.email)
          THEN [res |-> handleDBErrors(UniqueViolation, row.email), users |-> us]
          ELSE [res |-> Ok(UserEntity(after, id)), users |-> after]

UsersService_block(us, id, adminUser) ==
  LET userToBlock == UsersService_findOneById(us, id) IN
  IF userToBlock.kind # "Ok" THEN [res |-> userToBlock, users |-> us]
  ELSE LET after == With(us, id, [us[id] EXCEPT !.isActive = FALSE,
                                                 !.lastUpdatedBy = adminUser.id])
       IN [res |-> Ok(UserEntity(after, id)), users |-> after]

\* { token, user }
AuthResponse(token, user) == [token |-> token, user |-> user]

AuthService_signup(us, toks, newId, signupInput) ==
  LET made == UsersService_create(us, newId, signupInput) IN
  IF made.res.kind # "Ok"
  THEN [res |-> made.res, users |-> us, tokens |-> toks]
  ELSE [res |-> Ok(AuthResponse(newId, made.res.data)), users |-> made.users,
        tokens |-> toks \cup {newId}]

AuthService_login(us, toks, loginInput) ==
  LET user == UsersService_findOneByEmail(us, loginInput.email) IN
  IF user.kind # "Ok" THEN [res |-> user, tokens |-> toks]
  ELSE IF ~CompareSync(loginInput.password, user.data.password)
  THEN [res |-> ErrStr("BadRequest", "Email / Password do not match", ""),
        tokens |-> toks]
  ELSE [res |-> Ok(AuthResponse(user.data.id, user.data)),
        tokens |-> toks \cup {user.data.id}]

AuthService_revalidateToken(toks, user) ==
  [res |-> Ok(AuthResponse(user.id, user)), tokens |-> toks \cup {user.id}]

(***************************************************************************)
(* The GraphQL operations of AuthResolver and UsersResolver.  signup and   *)
(* login are open; the others are behind JwtAuthGuard and a role gate.     *)
(***************************************************************************)
signup(signupInput) ==
  /\ seq.user < MaxUsers
  /\ LET newId == seq.user + 1
         out == AuthService_signup(users, tokens, newId, signupInput)
     IN /\ users' = out.users
        /\ tokens' = out.tokens
        /\ seq' = IF out.res.kind = "Ok" THEN [seq EXCEPT !.user = newId] ELSE seq
        /\ last' = Outcome("signup", 0, 0, signupInput, out.res)
  /\ UNCHANGED <<items, lists, listItems, gateIn, calls>>

login(loginInput) ==
  /\ LET out == AuthService_login(users, tokens, loginInput)
     IN /\ tokens' = out.tokens
        /\ last' = Outcome("login", 0, 0, loginInput, out.res)
  /\ UNCHANGED <<users, items, lists, listItems, seq, gateIn, calls>>

revalidate(tok) ==
  /\ tok \in tokens
  /\ LET auth == Authorize(users, tok, {"admin"})
         out == IF auth.kind = "Ok"
                THEN AuthService_revalidateToken(tokens, auth.data)
                ELSE [res |-> auth, tokens |-> tokens]
     IN /\ tokens' = out.tokens
        /\ last' = Outcome("revalidate", tok, 0, NoArg, out.res)
  /\ UNCHANGED <<users, items, lists, listItems, seq, gateIn, calls>>

\* The `user` query (UsersResolver.findOne).
usersFindOne(tok, id) ==
  /\ tok \in tokens
  /\ LET auth == Authorize(users, tok, {"admin", "superUser"})
         res == IF auth.kind = "Ok" THEN UsersService_findOneById(users, id) ELSE auth
     IN last' = Outcome("user", tok, id, NoArg, res)
  /\ UNCHANGED <<users, tokens, items, lists, listItems, seq, gateIn, calls>>

updateUser(tok, updateUserInput) ==
  /\ tok \in tokens
  /\ LET auth == Authorize(users, tok, {"admin"})
         out == IF auth.kind = "Ok"
                THEN UsersService_update(users, updateUserInput.id, updateUserInput,
                                         auth.data)
                ELSE [res |-> auth, users |-> users]
     IN /\ users' = out.users
        /\ last' = Outcome("updateUser", tok, updateUserInput.id, updateUserInput,
                           out.res)
  /\ UNCHANGED <<tokens, items, lists, listItems, seq, gateIn, calls>>

blockUser(tok, id) ==
  /\ tok \in tokens
  /\ LET auth == Authorize(users, tok, {"admin"})
         out == IF auth.kind = "Ok"
                THEN UsersService_block(users, id, auth.data)
                ELSE [res |-> auth, users |-> users]
     IN /\ users' = out.users
        /\ last' = Outcome("blockUser", tok, id, NoArg, out.res)
  /\ UNCHANGED <<tokens, items, lists, listItems, seq, gateIn, calls>>

(***************************************************************************)
(* The role gate on its own: the decorator applied to a request whose      *)
(* required roles and req.user are gateIn.                                 *)
(***************************************************************************)
GateUsers ==
  {[id |-> id, email |-> "e1", password |-> <<>>, roles |-> roles,
    isActive |-> TRUE, lastUpdatedBy |-> 0] : id \in UserIds, roles \in SUBSET ValidRoles}

GateInputs == [roles : SUBSET ValidRoles, user : {NoUser} \cup GateUsers]

applyCurrentUser ==
  /\ gateIn \in GateInputs
  /\ last' = Outcome("CurrentUser", 0, 0, NoArg, CurrentUser(gateIn.roles, gateIn.user))
  /\ UNCHANGED <<users, tokens, items, lists, listItems, seq, gateIn, calls>>

(***************************************************************************)
(* The GraphQL operations on Lists and Items.  tok is the user id in the   *)
(* payload of the bearer token; every resolver is behind JwtAuthGuard and  *)
(* takes the requester through CurrentUser with no required role.          *)
(***************************************************************************)
createList(tok, createListInput) ==
  /\ tok \in tokens
  /\ seq.list + seq.item < MaxOwned
  /\ LET auth == Authorize(users, tok, {})
         newId == seq.list + 1
         out == IF auth.kind = "Ok"
                THEN ListsService_create(lists, newId, createListInput, auth.data.id)
                ELSE [res |-> auth, lists |-> lists]
     IN /\ lists' = out.lists
        /\ seq' = IF auth.kind = "Ok" THEN [seq EXCEPT !.list = newId] ELSE seq
        /\ last' = Outcome("createList", tok, 0, createListInput, out.res)
  /\ UNCHANGED <<users, tokens, items, listItems, gateIn, calls>>

list(tok, id) ==
  /\ tok \in tokens
  /\ LET auth == Authorize(users, tok, {})
         res == IF auth.kind = "Ok"
                THEN ListsService_findOne(lists, id, auth.data.id)
                ELSE auth
     IN last' = Outcome("list", tok, id, NoArg, res)
  /\ UNCHANGED <<users, tokens, items, lists, listItems, seq, gateIn, calls>>

updateList(tok, updateListInput) ==
  /\ tok \in tokens
  /\ LET auth == Authorize(users, tok, {})
         out == IF auth.kind = "Ok"
                THEN ListsService_update(lists, updateListInput.id, updateListInput,
                                         auth.data.id)
                ELSE [res |-> auth, lists |-> lists]
     IN /\ lists' = out.lists
        /\ last' = Outcome("updateList", tok, updateListInput.id, updateListInput, out.res)
  /\ UNCHANGED <<users, tokens, items, listItems, seq, gateIn, calls>>

removeList(tok, id) ==
  /\ tok \in tokens
  /\ LET auth == Authorize(users, tok, {})
         out == IF auth.kind = "Ok"
                THEN ListsService_remove(lists, listItems, id, auth.data.id)
                ELSE [res |-> auth, lists |-> lists]
     IN /\ lists' = out.lists
        /\ last' = Outcome("removeList", tok, id, NoArg, out.res)
  /\ UNCHANGED <<users, tokens, items, listItems, seq, gateIn, calls>>

createItem(tok, createItemInput) ==
  /\ tok \in tokens
  /\ seq.list + seq.item < MaxOwned
  /\ LET auth == Authorize(users, tok, {})
         newId == seq.item + 1
         out == IF auth.kind = "Ok"
                THEN ItemsService_create(items, newId, createItemInput, auth.data.id)
                ELSE [res |-> auth, items |-> items]
     IN /\ items' = out.items
        /\ seq' = IF auth.kind = "Ok" THEN [seq EXCEPT !.item = newId] ELSE seq
        /\ last' = Outcome("createItem", tok, 0, createItemInput, out.res)
  /\ UNCHANGED <<users, tokens, lists, listItems, gateIn, calls>>

item(tok, id) ==
  /\ tok \in tokens
  /\ LET auth == Authorize(users, tok, {})
         res == IF auth.kind = "Ok"
                THEN ItemsService_findOne(items, id, auth.data.id)
                ELSE auth
     IN last' = Outcome("item", tok, id, NoArg, res)
  /\ UNCHANGED <<users, tokens, items, lists, listItems, seq, gateIn, calls>>

updateItem(tok, updateItemInput) ==
  /\ tok \in tokens
  /\ LET auth == Authorize(users, tok, {})
         out == IF auth.kind = "Ok"
                THEN ItemsService_update(items, updateItemInput.id, updateItemInput,
                                         auth.data.id)
                ELSE [res |-> auth, items |-> items]
     IN /\ items' = out.items
        /\ last' = Outcome("updateItem", tok, updateItemInput.id, updateItemInput, out.res)
  /\ UNCHANGED <<users, tokens, lists, listItems, seq, gateIn, calls>>

removeItem(tok, id) ==
  /\ tok \in tokens
  /\ LET auth == Authorize(users, tok, {})
         out == IF auth.kind = "Ok"
                THEN ItemsService_remove(items, listItems, id, auth.data.id)
                ELSE [res |-> auth, items |-> items]
     IN /\ items' = out.items
        /\ last' = Outcome("removeItem", tok, id, NoArg, out.res)
  /\ UNCHANGED <<users, tokens, lists, listItems, seq, gateIn, calls>>

(***************************************************************************)
(* The update methods called as methods, with an id argument that need not *)
(* be the id inside the input.                                             *)
(***************************************************************************)
callListsUpdate(id, updateListInput, user) ==
  /\ user \in DOMAIN users
  /\ LET out == ListsService_update(lists, id, updateListInput, user)
     IN /\ lists' = out.lists
        /\ last' = Outcome("ListsService.update", user, id, updateListInput, out.res)
  /\ UNCHANGED <<users, tokens, items, listItems, seq, gateIn, calls>>

callItemsUpdate(id, updateItemInput, user) ==
  /\ user \in DOMAIN users
  /\ LET out == ItemsService_update(items, id, updateItemInput, user)
     IN /\ items' = out.items
        /\ last' = Outcome("ItemsService.update", user, id, updateItemInput, out.res)
  /\ UNCHANGED <<users, tokens, lists, listItems, seq, gateIn, calls>>

(***************************************************************************)
(* SeedService.executeSeed, step by step.  calls[SeedRequest] is its        *)
(* position; arg holds the first user and the first list it has loaded.    *)
(* loadListItems calls listItemService.create without await: each call is  *)
(* left in flight as a request of its own.                                 *)
(***************************************************************************)
SEED_USERS == <<[email |-> "e1", password |-> "p1"], [email |-> "e2", password |-> "p1"]>>

SEED_ITEMS == <<[name |-> "a", quantityUnits |-> Absent],
                [name |-> "b", quantityUnits |-> Absent]>>

SEED_LIST == <<[name |-> "a"], [name |-> "b"]>>

SeedAt(pc, arg) == Call(pc, 0, arg, 0, "", NoData)

SeedFailed == Call("done", 0, NoArg, 0, "catch", Ok(FALSE))

\* for (const user of SEED_USERS) users.push(await userService.create(user))
RECURSIVE LoadUsers(_, _, _)
LoadUsers(us, lastId, seedUsers) ==
  IF seedUsers = <<>> THEN [res |-> Ok(NoData), users |-> us, lastId |-> lastId]
  ELSE LET out == UsersService_create(us, lastId + 1, Head(seedUsers))
       IN IF out.res.kind # "Ok"
          THEN [res |-> out.res, users |-> out.users, lastId |-> lastId]
          ELSE LoadUsers(out.users, lastId + 1, Tail(seedUsers))

RECURSIVE LoadItems(_, _, _, _)
LoadItems(its, lastId, seedItems, user) ==
  IF seedItems = <<>> THEN [items |-> its, lastId |-> lastId]
  ELSE LoadItems(ItemsService_create(its, lastId + 1, Head(seedItems), user).items,
                 lastId + 1, Tail(seedItems), user)

RECURSIVE LoadLists(_, _, _, _)
LoadLists(ls, lastId, seedLists, user) ==
  IF seedLists = <<>> THEN [lists |-> ls, lastId |-> lastId]
  ELSE LoadLists(ListsService_create(ls, lastId + 1, Head(seedLists), user).lists,
                 lastId + 1, Tail(seedLists), user)

\* The isProd check and deleteDatabase.
executeSeed(isProd) ==
  /\ calls[SeedRequest].pc = "idle"
  /\ IF isProd
     THEN /\ calls' = [calls EXCEPT ![SeedRequest] =
                         Call("done", 0, NoArg, 0, "isProd",
                              ErrStr("Unauthorized",
                                     "The executeSeed function cannot be run in a production environment.",
                                     ""))]
          /\ last' = Outcome("executeSeed", 0, 0, NoArg, calls'[SeedRequest].res)
          /\ UNCHANGED <<users, items, lists, listItems>>
     ELSE /\ listItems' = Empty
          /\ lists' = Empty
          /\ items' = Empty
          /\ users' = Empty
          /\ calls' = [calls EXCEPT ![SeedRequest] = SeedAt("loadUsers", NoArg)]
          /\ UNCHANGED last
  /\ UNCHANGED <<tokens, seq, gateIn>>

executeSeedLoadUsers ==
  /\ calls[SeedRequest].pc = "loadUsers"
  /\ LET out == LoadUsers(users, seq.user, SEED_USERS) IN
     /\ users' = out.users
     /\ seq' = [seq EXCEPT !.user = out.lastId]
     /\ IF out.res.kind = "Ok"
        THEN /\ calls' = [calls EXCEPT ![SeedRequest] =
                            SeedAt("loadItems", [user |-> seq.user + 1, list |-> 0])]
             /\ UNCHANGED last
        ELSE /\ calls' = [calls EXCEPT ![SeedRequest] = SeedFailed]
             /\ last' = Outcome("executeSeed", 0, 0, NoArg, Ok(FALSE))
  /\ UNCHANGED <<tokens, items, lists, listItems, gateIn>>

executeSeedLoadItems ==
  /\ calls[SeedRequest].pc = "loadItems"
  /\ LET out == LoadItems(items, seq.item, SEED_ITEMS, calls[SeedRequest].arg.user) IN
     /\ items' = out.items
     /\ seq' = [seq EXCEPT !.item = out.lastId]
  /\ calls' = [calls EXCEPT ![SeedRequest] = SeedAt("loadLists", calls[SeedRequest].arg)]
  /\ UNCHANGED <<users, tokens, lists, listItems, last, gateIn>>

executeSeedLoadLists ==
  /\ calls[SeedRequest].pc = "loadLists"
  /\ LET out == LoadLists(lists, seq.list, SEED_LIST, calls[SeedRequest].arg.user) IN
     /\ lists' = out.lists
     /\ seq' = [seq EXCEPT !.list = out.lastId]
  /\ calls' = [calls EXCEPT ![SeedRequest] =
                 SeedAt("loadListItems",
                        [calls[SeedRequest].arg EXCEPT !.list = seq.list + 1])]
  /\ UNCHANGED <<users, tokens, items, listItems, last, gateIn>>

\* itemService.findAll(user, {limit: 15, offset: 0}, {}) and loadListItems:
\* one create per item found, with a random quantity and completed, none
\* of them awaited.
executeSeedLoadListItems ==
  /\ calls[SeedRequest].pc = "loadListItems"
  /\ \E found \in ItemsService_findAll(items, calls[SeedRequest].arg.user,
                                       [limit |-> 15, offset |-> 0],
                                       [search |-> Absent]),
        quantity \in [Requests -> Quantities], completed \in [Requests -> BOOLEAN] :
       /\ Len(found) <= Cardinality(Requests)
       /\ calls' = [r \in DOMAIN calls |->
                      IF r = SeedRequest THEN SeedAt("return", calls[SeedRequest].arg)
                      ELSE IF r <= Len(found)
                      THEN Call("save", 0,
                                [quantity |-> quantity[r], completed |-> completed[r],
                                 listId |-> calls[SeedRequest].arg.list,
                                 itemId |-> found[r].id],
                                0, "", NoData)
                      ELSE calls[r]]
  /\ UNCHANGED <<users, tokens, items, lists, listItems, seq, last, gateIn>>

\* return true
executeSeedReturn ==
  /\ calls[SeedRequest].pc = "return"
  /\ calls' = [calls EXCEPT ![SeedRequest] =
                 Call("done", 0, calls[SeedRequest].arg, 0, "return", Ok(TRUE))]
  /\ last' = Outcome("executeSeed", 0, 0, NoArg, Ok(TRUE))
  /\ UNCHANGED <<users, tokens, items, lists, listItems, seq, gateIn>>

(***************************************************************************)
(* Specifications.                                                         *)
(***************************************************************************)
NoOutcome == Outcome("none", 0, 0, NoArg, Ok(NoData))

\* Two users have signed up and hold their tokens; nothing else is stored.
Init ==
  /\ users = [id \in {1, 2} |-> NewUser(<<"e1", "e2">>[id], "p1")]
  /\ tokens = {1, 2}
  /\ items = Empty
  /\ lists = Empty
  /\ listItems = Empty
  /\ seq = [user |-> 2, item |-> 0, list |-> 0, listItem |-> 0]
  /\ last = NoOutcome
  /\ gateIn = NoArg
  /\ calls = NoCalls

Next ==
  \E tok \in {1, 2} :
    \/ \E input \in CreateListInputs : createList(tok, input)
    \/ \E id \in OwnedIds : list(tok, id)
    \/ \E input \in UpdateListInputs : updateList(tok, input)
    \/ \E id \in OwnedIds : removeList(tok, id)
    \/ \E input \in CreateItemInputs : createItem(tok, input)
    \/ \E id \in OwnedIds : item(tok, id)
    \/ \E input \in UpdateItemInputs : updateItem(tok, input)
    \/ \E id \in OwnedIds : removeItem(tok, id)

Spec == Init /\ [][Next]_vars

NextService ==
  \/ Next
  \/ \E user \in {1, 2}, id \in OwnedIds :
       \/ \E input \in UpdateListInputs : callListsUpdate(id, input, user)
       \/ \E input \in UpdateItemInputs : callItemsUpdate(id, input, user)

SpecService == Init /\ [][NextService]_vars

\* User 1 owns list 1 and item 1, user 2 owns list 2 and item 2; no ListItem
\* exists yet.  User 1 holds a token.
InitListItem ==
  /\ users = [id \in {1, 2} |-> NewUser(<<"e1", "e2">>[id], "p1")]
  /\ tokens = {1}
  /\ items = [id \in RefIds |-> [name |-> <<"a", "b">>[id], quantityUnits |-> Absent,
                                 user |-> id]]
  /\ lists = [id \in RefIds |-> [name |-> <<"a", "b">>[id], user |-> id]]
  /\ listItems = Empty
  /\ seq = [user |-> 2, item |-> 2, list |-> 2, listItem |-> 0]
  /\ last = NoOutcome
  /\ gateIn = NoArg
  /\ calls = NoCalls

NextListItem ==
  \/ \E tok \in UserIds, input \in CreateListItemInputs : createListItem(tok, input)
  \/ \E tok \in UserIds, id \in ListItemIds : listItem(tok, id)
  \/ \E tok \in UserIds, input \in UpdateListItemInputs : updateListItem(tok, input)
  \/ \E tok \in UserIds, id \in RefIds : removeList(tok, id)
  \/ \E tok \in UserIds, id \in RefIds : removeItem(tok, id)

SpecListItem == InitListItem /\ [][NextListItem]_vars

\* One user exists, an admin whom the seed created; no token is out.
InitAuth ==
  /\ users = [id \in {1} |-> [NewUser("e1", "p1") EXCEPT !.roles = {"admin"}]]
  /\ tokens = {}
  /\ items = Empty
  /\ lists = Empty
  /\ listItems = Empty
  /\ seq = [user |-> 1, item |-> 0, list |-> 0, listItem |-> 0]
  /\ last = NoOutcome
  /\ gateIn = NoArg
  /\ calls = NoCalls

NextAuth ==
  \/ \E input \in SignUpInputs : signup(input)
  \/ \E input \in LoginInputs : login(input)
  \/ \E tok \in UserIds : revalidate(tok)
  \/ \E tok \in UserIds, id \in UserIds : usersFindOne(tok, id)
  \/ \E tok \in UserIds, input \in UpdateUserInputs : updateUser(tok, input)
  \/ \E tok \in UserIds, id \in UserIds : blockUser(tok, id)
  \/ \E tok \in UserIds, id \in OwnedIds : list(tok, id)

SpecAuth == InitAuth /\ [][NextAuth]_vars

\* Any required roles and any req.user, on an empty store.
InitGate ==
  /\ users = Empty
  /\ tokens = {}
  /\ items = Empty
  /\ lists = Empty
  /\ listItems = Empty
  /\ seq = [user |-> 0, item |-> 0, list |-> 0, listItem |-> 0]
  /\ last = NoOutcome
  /\ gateIn \in GateInputs
  /\ calls = NoCalls

NextGate == applyCurrentUser

SpecGate == InitGate /\ [][NextGate]_vars

\* User 1 owns list 1 and item 1; list 2 and item 2 both belong to user 1 or
\* both to user 2; no ListItem exists yet.  Both users hold a token.
InitFind ==
  /\ users = [id \in {1, 2} |-> NewUser(<<"e1", "e2">>[id], "p1")]
  /\ tokens = {1, 2}
  /\ \E owner \in {1, 2} :
       /\ items = [id \in RefIds |-> [name |-> <<"a", "b">>[id], quantityUnits |-> Absent,
                                      user |-> IF id = 1 THEN 1 ELSE owner]]
       /\ lists = [id \in RefIds |-> [name |-> <<"a", "b">>[id],
                                      user |-> IF id = 1 THEN 1 ELSE owner]]
  /\ listItems = Empty
  /\ seq = [user |-> 2, item |-> 2, list |-> 2, listItem |-> 0]
  /\ last = NoOutcome
  /\ gateIn = NoArg
  /\ calls = NoCalls

\* ListItems are created with the input's default quantity and completed.
NextFind ==
  \/ \E tok \in UserIds, input \in DefaultListItemInputs :
       createListItem(tok, input)
  \/ \E tok \in UserIds, pa \in PaginationArgs, sa \in SearchArgsTried :
       listsFindAll(tok, pa, sa)
  \/ \E tok \in UserIds, pa \in PaginationArgs, sa \in SearchArgsTried :
       itemsFindAll(tok, pa, sa)
  \/ \E tok \in UserIds, id \in RefIds, pa \in PaginationArgs, sa \in SearchArgsTried :
       getListItems(tok, id, pa, sa)

SpecFind == InitFind /\ [][NextFind]_vars

\* Two createListItem requests in flight over two lists and two items.
NextConcurrent ==
  \/ \E r \in Requests, tok \in UserIds, input \in DefaultListItemInputs :
       createListItemBegin(r, tok, input)
  \/ \E r \in Requests : createListItemSave(r)
  \/ \E r \in Requests : createListItemFindOne(r)

SpecConcurrent == InitFind /\ [][NextConcurrent]_vars

\* The updates that re-point list and item and send no other field.
RepointInputs ==
  {input \in UpdateListItemInputs :
     input.quantity = Absent /\ input.completed = Absent}

\* The operations on ListItems asked by either user, over lists and items of
\* one owner or of two.
NextJoin ==
  \/ \E tok \in UserIds, input \in DefaultListItemInputs : createListItem(tok, input)
  \/ \E tok \in UserIds, id \in ListItemIds : listItem(tok, id)
  \/ \E tok \in UserIds, input \in RepointInputs : updateListItem(tok, input)

SpecJoin == InitFind /\ [][NextJoin]_vars

\* ListItem 1 joins list 1 with item 1.
InitUpdates ==
  /\ users = [id \in {1, 2} |-> NewUser(<<"e1", "e2">>[id], "p1")]
  /\ tokens = {1}
  /\ items = [id \in RefIds |-> [name |-> <<"a", "b">>[id], quantityUnits |-> Absent,
                                 user |-> id]]
  /\ lists = [id \in RefIds |-> [name |-> <<"a", "b">>[id], user |-> id]]
  /\ listItems = [id \in {1} |-> [quantity |-> 0, completed |-> FALSE,
                                  list |-> 1, item |-> 1]]
  /\ seq = [user |-> 2, item |-> 2, list |-> 2, listItem |-> 1]
  /\ last = NoOutcome
  /\ gateIn = NoArg
  /\ calls = NoCalls

\* The updates of ListItem 1 that set its quantity, its list, both or none.
InterleavedUpdateInputs ==
  {input \in UpdateListItemInputs :
     input.id = 1 /\ input.completed = Absent /\ input.itemId = Absent}

\* Two updateListItem requests in flight on ListItem 1.
NextUpdates ==
  \/ \E r \in Requests, tok \in UserIds, input \in InterleavedUpdateInputs :
       updateListItemBegin(r, tok, input)
  \/ \E r \in Requests : updateListItemExecute(r)
  \/ \E r \in Requests : updateListItemFindOne(r)

SpecUpdates == InitUpdates /\ [][NextUpdates]_vars

\* executeSeed over a store that holds users, items and lists, with the
\* creates it leaves in flight.
NextSeed ==
  \/ \E isProd \in BOOLEAN : executeSeed(isProd)
  \/ executeSeedLoadUsers
  \/ executeSeedLoadItems
  \/ executeSeedLoadLists
  \/ executeSeedLoadListItems
  \/ executeSeedReturn
  \/ \E r \in Requests : createListItemSave(r)
  \/ \E r \in Requests : createListItemFindOne(r)

SpecSeed == InitFind /\ [][NextSeed]_vars

(***************************************************************************)
(* Claims on the ownership scoping of Items and Lists.                     *)
(***************************************************************************)
OwnedBy(store, id, user) == id \in DOMAIN store /\ store[id].user = user

ForeignTo(store, id, user) == id \in DOMAIN store /\ store[id].user # user

\* C1: for users U1 # U2 and every Item or List owned by U1, findOne(id, U2)
\* fails with NotFound and carries no data of the record, in every state
\* reached by create, update and remove; the item and list queries that ran
\* on another user's record ended so.
FindOneHidesForeignRecords ==
  /\ \A u \in DOMAIN users, id \in OwnedIds :
       /\ ForeignTo(lists, id, u) =>
            /\ ListsService_findOne(lists, id, u).kind = "NotFound"
            /\ ListsService_findOne(lists, id, u).data = NoData
       /\ ForeignTo(items, id, u) =>
            /\ ItemsService_findOne(items, id, u).kind = "NotFound"
            /\ ItemsService_findOne(items, id, u).data = NoData
  /\ (last.op = "list" /\ ForeignTo(lists, last.id, last.user)) =>
       (last.res.kind = "NotFound" /\ last.res.data = NoData)
  /\ (last.op = "item" /\ ForeignTo(items, last.id, last.user)) =>
       (last.res.kind = "NotFound" /\ last.res.data = NoData)

\* C1 witness: with two lists stored, the list query ran on one that another
\* user owns and answered NotFound.
ForeignListQueried ==
  /\ last.op = "list"
  /\ ForeignTo(lists, last.id, last.user)
  /\ last.res.kind = "NotFound"
  /\ Cardinality(DOMAIN lists) = 2

\* C2: for a requester U and an id X that some other user owns, findOne,
\* update and remove answer exactly as they do in the state that differs only
\* in X not existing at all (same error kind, same message, no change of the
\* store), on Lists and on Items; the operations that ran on an id the
\* requester does not own (foreign or missing) show that one answer.
ForeignIsIndistinguishableFromMissing ==
  /\ \A u \in DOMAIN users, id \in OwnedIds :
       /\ ForeignTo(lists, id, u) =>
            LET gone == Without(lists, id) IN
            /\ Visible(ListsService_findOne(lists, id, u))
                 = Visible(ListsService_findOne(gone, id, u))
            /\ \A input \in UpdateListInputs :
                 /\ Visible(ListsService_update(lists, id, input, u).res)
                      = Visible(ListsService_update(gone, id, input, u).res)
                 /\ ListsService_update(lists, id, input, u).lists = lists
            /\ Visible(ListsService_remove(lists, listItems, id, u).res)
                 = Visible(ListsService_remove(gone, listItems, id, u).res)
            /\ ListsService_remove(lists, listItems, id, u).lists = lists
       /\ ForeignTo(items, id, u) =>
            LET gone == Without(items, id) IN
            /\ Visible(ItemsService_findOne(items, id, u))
                 = Visible(ItemsService_findOne(gone, id, u))
            /\ \A input \in UpdateItemInputs :
                 /\ Visible(ItemsService_update(items, id, input, u).res)
                      = Visible(ItemsService_update(gone, id, input, u).res)
                 /\ ItemsService_update(items, id, input, u).items = items
            /\ Visible(ItemsService_remove(items, listItems, id, u).res)
                 = Visible(ItemsService_remove(gone, listItems, id, u).res)
            /\ ItemsService_remove(items, listItems, id, u).items = items
  /\ (\/ last.op \in {"list", "updateList"} /\ ~OwnedBy(lists, last.id, last.user)
      \/ last.op = "removeList" /\ ForeignTo(lists, last.id, last.user)) =>
       Visible(last.res)
         = Visible(Err("NotFound", "List with id: ${id} not found", last.id))
  /\ (\/ last.op \in {"item", "updateItem"} /\ ~OwnedBy(items, last.id, last.user)
      \/ last.op = "removeItem" /\ ForeignTo(items, last.id, last.user)) =>
       Visible(last.res)
         = Visible(Err("NotFound", "Item with id: ${id} not found", last.id))

\* C2 witness: removeItem was refused on an item that exists and belongs to
\* another user.
ForeignItemRemoveRefused ==
  /\ last.op = "removeItem"
  /\ ForeignTo(items, last.id, last.user)
  /\ last.res.kind = "NotFound"

(***************************************************************************)
(* Claims on the ListItem join.                                            *)
(***************************************************************************)
SamePair(lis, k, listId, itemId) == lis[k].list = listId /\ lis[k].item = itemId

\* C3: in every state reached by createListItem and updateListItem, updates
\* that re-point listId or itemId onto a pair of another ListItem included,
\* no two ListItems hold the same (list, item) pair.
PairIsUnique ==
  \A a, b \in DOMAIN listItems :
    SamePair(listItems, a, listItems[b].list, listItems[b].item) => a = b

\* C3 witness: with two ListItems stored, an updateListItem that re-points
\* one of them onto the pair of the other was refused.
RepointOntoTakenPairRefused ==
  /\ last.op = "updateListItem"
  /\ last.arg.listId # Absent
  /\ last.arg.itemId # Absent
  /\ Cardinality(DOMAIN listItems) = 2
  /\ last.id \in DOMAIN listItems
  /\ PairTaken(listItems, last.id, last.arg.listId[1], last.arg.itemId[1])
  /\ last.res = QueryFailed(UniqueViolation)

\* C4 as claimed: a createListItem that failed on a (listId, itemId) pair
\* that a ListItem already holds ended with a Conflict error, which the
\* caller can tell from an internal failure.
DuplicateCreateIsConflict ==
  ( /\ last.op = "createListItem"
    /\ last.res.kind # "Ok"
    /\ PairTaken(listItems, 0, last.arg.listId, last.arg.itemId) )
  => last.res.kind \in {"Conflict", "BadRequest"}

\* C5: a createListItem on a pair that a ListItem already holds, whatever
\* its quantity and completed, fails and leaves the store as it was: one
\* ListItem for the pair, with the quantity and completed it had.
RejectedDuplicateLeavesStore ==
  [][ ( /\ last'.op = "createListItem"
        /\ PairTaken(listItems, 0, last'.arg.listId, last'.arg.itemId) )
      => /\ last'.res.kind # "Ok"
         /\ listItems' = listItems
         /\ Cardinality({k \in DOMAIN listItems' :
               SamePair(listItems', k, last'.arg.listId, last'.arg.itemId)}) = 1
    ]_vars

\* C5 witness: a createListItem was refused on a pair whose one ListItem
\* holds another quantity and another completed than the refused input.
DuplicateCreateRefused ==
  /\ last.op = "createListItem"
  /\ last.res.kind # "Ok"
  /\ \E k \in DOMAIN listItems :
       /\ SamePair(listItems, k, last.arg.listId, last.arg.itemId)
       /\ listItems[k].quantity # last.arg.quantity
       /\ listItems[k].completed # last.arg.completed
       /\ ~PairTaken(listItems, k, last.arg.listId, last.arg.itemId)

(***************************************************************************)
(* Claims on blocking, the role gate and login.                            *)
(***************************************************************************)
Inactive(us, u) == u \in DOMAIN us /\ ~us[u].isActive

\* The operations behind JwtAuthGuard.
GuardedOps == {"revalidate", "user", "updateUser", "blockUser", "list"}

Refused(res) == res.kind = "Unauthorized" /\ res.data = NoData

\* C6 as claimed: a successful blockUser leaves the user inactive, and from
\* then on the validation of that user's token fails with Unauthorized and
\* the guarded operations that user asks for are refused, whatever happens
\* next.
BlockedForGood ==
  [][ /\ (last'.op = "blockUser" /\ last'.res.kind = "Ok") =>
           /\ Inactive(users', last'.id)
           /\ Refused(JwtStrategy_validate(users', last'.id))
      /\ (last.op = "blockUser" /\ last.res.kind = "Ok") =>
           /\ Refused(JwtStrategy_validate(users', last.id))
           /\ (last'.op \in GuardedOps /\ last'.user = last.id) => Refused(last'.res)
    ]_vars

\* C6 amended: a successful blockUser leaves the user inactive; an inactive
\* user stays inactive unless an admin's updateUser sets isActive to true;
\* while a user is inactive the validation of that user's token, also of one
\* signed before the block, fails with Unauthorized, and a guarded operation
\* asked with that token is refused and changes nothing.
BlockedUntilReactivated ==
  [][ /\ (last'.op = "blockUser" /\ last'.res.kind = "Ok") =>
           Inactive(users', last'.id)
      /\ \A u \in DOMAIN users' :
           Inactive(users', u) => Refused(JwtStrategy_validate(users', u))
      /\ \A u \in DOMAIN users :
           Inactive(users, u) =>
             \/ Inactive(users', u)
             \/ /\ last'.op = "updateUser"
                /\ last'.res.kind = "Ok"
                /\ last'.id = u
                /\ last'.arg.isActive = Some(TRUE)
      /\ (last'.op \in GuardedOps /\ Inactive(users, last'.user)) =>
           /\ Refused(last'.res)
           /\ users' = users
           /\ tokens' = tokens
           /\ lists' = lists
    ]_vars

\* C6 witness: blockUser succeeded on a user who holds a token signed before
\* the block, and the validation of that token now fails.
BlockedWithTokenOut ==
  /\ last.op = "blockUser"
  /\ last.res.kind = "Ok"
  /\ last.id \in tokens
  /\ last.id # last.user
  /\ Inactive(users, last.id)
  /\ Refused(JwtStrategy_validate(users, last.id))

\* C7: for a present requester the role gate returns the requester when the
\* required roles are empty or share a role with the requester's roles, and
\* fails with Forbidden in every other case, for every subset of ValidRoles
\* as requester roles and as required roles.
RoleGateGrantsIffRolesMeet ==
  (last.op = "CurrentUser" /\ gateIn.user # NoUser) =>
    IF gateIn.roles = {} \/ (gateIn.user.roles \cap gateIn.roles) # {}
    THEN last.res = Ok(gateIn.user)
    ELSE last.res.kind = "Forbidden" /\ last.res.data = NoData

\* C7 witness: a requester without any role asked for an operation that
\* requires no role, and was let in.
NoRoleNeededNoRoleHeld ==
  /\ last.op = "CurrentUser"
  /\ gateIn.user # NoUser
  /\ gateIn.roles = {}
  /\ gateIn.user.roles = {}
  /\ last.res.kind = "Ok"

\* C8: with no identity attached to the request the role gate fails with an
\* Internal error, carrying no user, for every set of required roles.
MissingUserIsInternal ==
  (last.op = "CurrentUser" /\ gateIn.user = NoUser) =>
    (last.res.kind = "Internal" /\ last.res.data = NoData)

\* C8 witness: the gate ran without an identity on an operation that
\* requires no role.
GateRanWithoutUser ==
  /\ last.op = "CurrentUser"
  /\ gateIn.user = NoUser
  /\ gateIn.roles = {}
  /\ last.res.kind = "Internal"

\* C9 as claimed: a login with the email of an existing user and a password
\* that does not match the stored hash fails with Unauthorized, returns no
\* token, and shows the caller what a login with an unknown email shows.
WrongPasswordIsUnauthorized ==
  \A id \in DOMAIN users :
    ( /\ last.op = "login"
      /\ users[id].email = last.arg.email
      /\ ~CompareSync(last.arg.password, users[id].password) )
    => /\ Refused(last.res)
       /\ Visible(last.res)
            = Visible(AuthService_login(Without(users, id), tokens, last.arg).res)

(***************************************************************************)
(* Claims on remove.                                                       *)
(***************************************************************************)
\* C11 as claimed: removeList and removeItem on a record that the requester
\* owns delete it, return the record as it was with its id, make a following
\* findOne fail with NotFound and leave every other record as it was; on an
\* id that the requester does not own they fail with NotFound and delete
\* nothing.
RemoveDeletesTheOwnedRecord ==
  [][ /\ last'.op = "removeList" =>
           IF OwnedBy(lists, last'.id, last'.user)
           THEN /\ last'.res = Ok([ListEntity(lists, last'.id) EXCEPT !.id = last'.id])
                /\ lists' = Without(lists, last'.id)
                /\ ListsService_findOne(lists', last'.id, last'.user).kind = "NotFound"
           ELSE last'.res.kind = "NotFound" /\ lists' = lists
      /\ last'.op = "removeItem" =>
           IF OwnedBy(items, last'.id, last'.user)
           THEN /\ last'.res = Ok([ItemEntity(items, last'.id) EXCEPT !.id = last'.id])
                /\ items' = Without(items, last'.id)
                /\ ItemsService_findOne(items', last'.id, last'.user).kind = "NotFound"
           ELSE last'.res.kind = "NotFound" /\ items' = items
    ]_vars

(***************************************************************************)
(* Claims on findAll.                                                      *)
(***************************************************************************)
Rows(page) == {page[i].id : i \in DOMAIN page}

\* C12: whatever the pagination and the search term, every page that
\* findAll can return for a user holds only Lists (Items) that this user
\* owns, and the lists and items queries that ran answered so.
FindAllReturnsOnlyOwnedRecords ==
  /\ \A u \in DOMAIN users, pa \in PaginationArgs, sa \in SearchArgs :
       /\ \A page \in ListsService_findAll(lists, u, pa, sa) :
            \A i \in DOMAIN page : OwnedBy(lists, page[i].id, u) /\ page[i].user = u
       /\ \A page \in ItemsService_findAll(items, u, pa, sa) :
            \A i \in DOMAIN page : OwnedBy(items, page[i].id, u) /\ page[i].user = u
  /\ (last.op = "lists" /\ last.res.kind = "Ok") =>
       \A id \in Rows(last.res.data) : OwnedBy(lists, id, last.user)
  /\ (last.op = "items" /\ last.res.kind = "Ok") =>
       \A id \in Rows(last.res.data) : OwnedBy(items, id, last.user)

\* C12 witness: the lists query returned rows while a list of another user
\* also matched the search.
ListsQueriedNextToForeignList ==
  /\ last.op = "lists"
  /\ last.res.kind = "Ok"
  /\ last.res.data # <<>>
  /\ \E id \in DOMAIN lists :
       /\ ForeignTo(lists, id, last.user)
       /\ NameMatches(lists[id].name, [search |-> last.arg.search])

Maximum(a, b) == IF a >= b THEN a ELSE b

Minimum(a, b) == IF a <= b THEN a ELSE b

ExpectedRows(n, limit, offset) == Maximum(0, Minimum(limit, n - offset))

\* C13: with N rows matching the owner (or the list) and the search term,
\* findAll with limit L and offset O returns max(0, min(L, N - O)) rows, on
\* Lists, Items and ListItems, and the queries that ran returned that many.
FindAllReturnsTheSlice ==
  /\ \A pa \in PaginationArgs, sa \in SearchArgs :
       /\ \A u \in DOMAIN users :
            /\ \A page \in ListsService_findAll(lists, u, pa, sa) :
                 Len(page) = ExpectedRows(Cardinality(ListsMatching(lists, u, sa)),
                                          pa.limit, pa.offset)
            /\ \A page \in ItemsService_findAll(items, u, pa, sa) :
                 Len(page) = ExpectedRows(Cardinality(ItemsMatching(items, u, sa)),
                                          pa.limit, pa.offset)
       /\ \A listId \in DOMAIN lists :
            \A page \in ListItemService_findAll(listItems, items, listId, pa, sa) :
              Len(page) = ExpectedRows(
                            Cardinality(ListItemsMatching(listItems, items, listId, sa)),
                            pa.limit, pa.offset)
  /\ (last.op = "lists" /\ last.res.kind = "Ok") =>
       Len(last.res.data)
         = ExpectedRows(Cardinality(ListsMatching(lists, last.user,
                                                  [search |-> last.arg.search])),
                        last.arg.limit, last.arg.offset)
  /\ (last.op = "items" /\ last.res.kind = "Ok") =>
       Len(last.res.data)
         = ExpectedRows(Cardinality(ItemsMatching(items, last.user,
                                                  [search |-> last.arg.search])),
                        last.arg.limit, last.arg.offset)
  /\ (last.op = "list.items" /\ last.res.kind = "Ok") =>
       Len(last.res.data)
         = ExpectedRows(Cardinality(ListItemsMatching(listItems, items, last.id,
                                                      [search |-> last.arg.search])),
                        last.arg.limit, last.arg.offset)

\* C13 witness: the lists query with limit 2 and offset 1 ran on two
\* matching lists and returned one.
SecondHalfOfTwoLists ==
  /\ last.op = "lists"
  /\ last.res.kind = "Ok"
  /\ last.arg.limit = 2
  /\ last.arg.offset = 1
  /\ Cardinality(ListsMatching(lists, last.user, [search |-> last.arg.search])) = 2
  /\ Len(last.res.data) = 1

\* C14 as claimed: on one dataset, whichever pages findAll returns for the
\* offsets 0, L, 2L, ... with one limit L, every matching List (Item) is in
\* exactly one place of exactly one page.
PagesCoverEveryRowOnce ==
  \A u \in DOMAIN users, limit \in 1..MaxLimit, sa \in SearchArgs :
    /\ LET rows == ListsMatching(lists, u, sa)
           n == Cardinality(rows)
           pagesAt(k) == ListsService_findAll(lists, u,
                           [limit |-> limit, offset |-> k * limit], sa)
       IN \A got \in [0..n -> UNION {pagesAt(k) : k \in 0..n}] :
            (\A k \in 0..n : got[k] \in pagesAt(k)) =>
              \A id \in rows :
                Cardinality({place \in (0..n) \X (1..limit) :
                               /\ place[2] \in DOMAIN got[place[1]]
                               /\ got[place[1]][place[2]].id = id}) = 1
    /\ LET rows == ItemsMatching(items, u, sa)
           n == Cardinality(rows)
           pagesAt(k) == ItemsService_findAll(items, u,
                           [limit |-> limit, offset |-> k * limit], sa)
       IN \A got \in [0..n -> UNION {pagesAt(k) : k \in 0..n}] :
            (\A k \in 0..n : got[k] \in pagesAt(k)) =>
              \A id \in rows :
                Cardinality({place \in (0..n) \X (1..limit) :
                               /\ place[2] \in DOMAIN got[place[1]]
                               /\ got[place[1]][place[2]].id = id}) = 1

\* text contains term as a run of consecutive characters.
Contains(text, term) ==
  \E i \in 1..(Len(text) - Len(term) + 1) : SubSeq(text, i, i + Len(term) - 1) = term

SearchedFor(name, searchArgs) ==
  \/ searchArgs.search = Absent
  \/ searchArgs.search = Some("")
  \/ Contains(ToLowerCase(Chars(name)), ToLowerCase(Chars(searchArgs.search[1])))

\* C15 as claimed: with a limit that holds them all, findAll returns exactly
\* the user's Lists (Items; a list's ListItems) whose name (Item.name for a
\* ListItem) contains the search term ignoring letter case, and all of them
\* when the term is absent or empty.
SearchIsSubstringMatch ==
  \A sa \in SearchArgs :
    /\ \A u \in DOMAIN users :
         /\ \A page \in ListsService_findAll(lists, u,
                          [limit |-> Cardinality(DOMAIN lists) + 1, offset |-> 0], sa) :
              Rows(page) = {id \in DOMAIN lists :
                              lists[id].user = u /\ SearchedFor(lists[id].name, sa)}
         /\ \A page \in ItemsService_findAll(items, u,
                          [limit |-> Cardinality(DOMAIN items) + 1, offset |-> 0], sa) :
              Rows(page) = {id \in DOMAIN items :
                              items[id].user = u /\ SearchedFor(items[id].name, sa)}
    /\ \A listId \in DOMAIN lists :
         \A page \in ListItemService_findAll(listItems, items, listId,
                       [limit |-> Cardinality(DOMAIN listItems) + 1, offset |-> 0], sa) :
           Rows(page) = {id \in DOMAIN listItems :
                           /\ listItems[id].list = listId
                           /\ SearchedFor(items[listItems[id].item].name, sa)}

(***************************************************************************)
(* Claims on the errors of ListItems, signup, the admin gate and login.    *)
(***************************************************************************)
\* C16 as claimed: the listItem query and updateListItem on an id that no
\* ListItem has fail with NotFound, and never answer with an empty result.
AbsentListItemIsNotFound ==
  ( /\ last.op \in {"listItem", "updateListItem"}
    /\ last.id \notin DOMAIN listItems )
  => (last.res.kind = "NotFound" /\ last.res.data # Null)

\* C17: no two users hold one email, and a signup with an email that a user
\* holds fails with a BadRequest (a validation error, not an Internal one),
\* stores no user and signs no token.
EmailsAreUnique ==
  [][ /\ \A a, b \in DOMAIN users' : users'[a].email = users'[b].email => a = b
      /\ (last'.op = "signup" /\ EmailTaken(users, 0, last'.arg.email)) =>
           /\ last'.res.kind = "BadRequest"
           /\ last'.res.data = NoData
           /\ users' = users
           /\ tokens' = tokens
    ]_vars

\* C17 witness: a signup with the email of the stored user was refused.
SignupWithHeldEmailRefused ==
  /\ last.op = "signup"
  /\ EmailTaken(users, 0, last.arg.email)
  /\ last.res.kind = "BadRequest"
  /\ seq.user = Cardinality(DOMAIN users)

\* The service call that stands behind an admin operation of UsersResolver.
AdminCall(op, id, arg, requester) ==
  IF op = "blockUser" THEN UsersService_block(users, id, requester)
  ELSE UsersService_update(users, id, arg, requester)

BlockedLoginIsUnauthorized ==
  \A id \in DOMAIN users :
    ( /\ last.op = "login"
      /\ users[id].email = last.arg.email
      /\ CompareSync(last.arg.password, users[id].password)
      /\ ~users[id].isActive )
    => (last.res.kind = "Unauthorized" /\ last.res.data = NoData)

\* Request r has had its INSERT answered.
PastInsert(r) == calls[r].pc \in {"findOne", "done"} /\ calls[r].at # "guard"

PairRows(arg) ==
  {k \in DOMAIN listItems : SamePair(listItems, k, arg.listId, arg.itemId)}

\* C18: of two createListItem requests in flight with one (listId, itemId)
\* pair, whatever the order of their steps, exactly one stores its row and
\* answers with it, the other fails at its INSERT, and one ListItem holds
\* the pair.
ConcurrentCreateOneWins ==
  \A a \in Requests : \A b \in Requests \ {a} :
    ( /\ PastInsert(a) /\ PastInsert(b)
      /\ calls[a].arg.listId = calls[b].arg.listId
      /\ calls[a].arg.itemId = calls[b].arg.itemId )
    => \E w \in {a, b} : \E l \in {a, b} \ {w} :
         /\ PairRows(calls[w].arg) = {calls[w].id}
         /\ calls[w].pc = "done" =>
              calls[w].res = Ok(ListItemEntity(listItems, calls[w].id))
         /\ calls[l].pc = "done"
         /\ calls[l].at = "save"
         /\ calls[l].res.kind # "Ok"

\* C18 witness: request 2 was refused at its INSERT while request 1, which
\* holds the pair, has not yet run its findOne.
RefusedWhileWinnerInFlight ==
  /\ calls[1].pc = "findOne"
  /\ calls[2].pc = "done"
  /\ calls[2].at = "save"
  /\ calls[2].res = QueryFailed(UniqueViolation)
  /\ calls[1].arg = calls[2].arg

(***************************************************************************)
(* Claims on update as a method.                                           *)
(***************************************************************************)
\* C10 as claimed: update(id, input, owner) as a method call, for every id and
\* every input, fails with NotFound and changes nothing when owner owns no
\* record with that id, and otherwise changes no record but the one with
\* that id.
UpdateTouchesOnlyTheOwnedRecord ==
  [][ /\ last'.op \in {"ListsService.update", "updateList"} =>
           IF ~OwnedBy(lists, last'.id, last'.user)
           THEN last'.res.kind = "NotFound" /\ lists' = lists
           ELSE \A k \in DOMAIN lists \ {last'.id} :
                  k \in DOMAIN lists' /\ lists'[k] = lists[k]
      /\ last'.op \in {"ItemsService.update", "updateItem"} =>
           IF ~OwnedBy(items, last'.id, last'.user)
           THEN last'.res.kind = "NotFound" /\ items' = items
           ELSE \A k \in DOMAIN items \ {last'.id} :
                  k \in DOMAIN items' /\ items'[k] = items[k]
    ]_vars

(***************************************************************************)
(* Claims on owners, the users query and update, frames of ListItems,      *)
(* the seed, interleaved updates, isolation of users and validation.       *)
(***************************************************************************)
\* Every record of the store after the step that the store before the step
\* had keeps its owner, and a new one is owned by the requester of the
\* create that stored it.
OwnersKept(before, after, createOp) ==
  \A id \in DOMAIN after :
    /\ after[id].user \in DOMAIN users
    /\ IF id \in DOMAIN before
       THEN after[id].user = before[id].user
       ELSE last'.op = createOp /\ after[id].user = last'.user

\* C21: every List and every Item has one owner, the user that create was
\* given, and no update, by the owner or by anyone else, through the
\* resolver or as a method call, changes the owner of a record.
OwnerNeverChanges ==
  [][ /\ OwnersKept(lists, lists', "createList")
      /\ OwnersKept(items, items', "createItem") ]_vars

\* C21 witness: an update called by a user changed a list of another user,
\* which that other user still owns.
ForeignListUpdatedOwnerKept ==
  /\ last.op = "ListsService.update"
  /\ last.res.kind = "Ok"
  /\ last.arg.id \in DOMAIN lists
  /\ lists[last.arg.id].user # last.user
  /\ lists[last.arg.id].name = last.res.data.name

UpdateOfMissingUserIsNotFound ==
  [][ ( /\ last'.op = "updateUser"
        /\ Authorize(users, last'.user, {"admin"}).kind = "Ok"
        /\ last'.id \notin DOMAIN users )
      => (last'.res.kind = "NotFound" /\ users' = users) ]_vars

\* C24 as claimed: updateListItem is a partial update: each of quantity,
\* completed, list and item that the input omits keeps its stored value, and
\* no ListItem but the one with the given id is changed.
UpdateListItemIsPartial ==
  [][ ( /\ last'.op = "updateListItem"
        /\ JwtStrategy_validate(users, last'.user).kind = "Ok"
        /\ last'.id \in DOMAIN listItems )
      => /\ DOMAIN listItems' = DOMAIN listItems
         /\ \A k \in DOMAIN listItems \ {last'.id} : listItems'[k] = listItems[k]
         /\ LET old == listItems[last'.id]
                new == listItems'[last'.id]
            IN /\ last'.arg.quantity = Absent => new.quantity = old.quantity
               /\ last'.arg.completed = Absent => new.completed = old.completed
               /\ last'.arg.listId = Absent => new.list = old.list
               /\ last'.arg.itemId = Absent => new.item = old.item
    ]_vars

\* The list or item that an input names does not exist.
Dangling(op, arg) ==
  IF op = "createListItem"
  THEN arg.listId \notin DOMAIN lists \/ arg.itemId \notin DOMAIN items
  ELSE \/ arg.listId # Absent /\ arg.listId[1] \notin DOMAIN lists
       \/ arg.itemId # Absent /\ arg.itemId[1] \notin DOMAIN items

\* C25: every ListItem references an existing List and an existing Item:
\* a create or update that names a list or item that does not exist stores
\* nothing, and removeList / removeItem never leave a ListItem that points
\* at a deleted record.
ReferencesExist ==
  [][ /\ \A k \in DOMAIN listItems' :
           listItems'[k].list \in DOMAIN lists' /\ listItems'[k].item \in DOMAIN items'
      /\ ( /\ last'.op \in {"createListItem", "updateListItem"}
           /\ Dangling(last'.op, last'.arg) )
         => listItems' = listItems
    ]_vars

\* C25 witness: a createListItem that names a removed list was refused
\* while a ListItem is stored on the other list.
CreateOnRemovedListRefused ==
  /\ last.op = "createListItem"
  /\ last.arg.listId \notin DOMAIN lists
  /\ last.res = QueryFailed(ForeignKeyViolation)
  /\ listItems # Empty

\* A store of lists or items with the owners blanked.
NoOwner(store) == [k \in DOMAIN store |-> [store[k] EXCEPT !.user = 0]]

\* What an operation on ListItems can answer and store, computed from the
\* ListItems, the ids of the lists and items and the input alone.
JoinOutcomes(op, id, arg) ==
  IF op = "createListItem"
  THEN {ListItemService_create(listItems, NoOwner(lists), NoOwner(items),
                               seq.listItem + 1, arg)}
  ELSE IF op = "listItem"
  THEN {[res |-> ListItemService_findOne(listItems, id), listItems |-> listItems]}
  ELSE {ListItemService_update(listItems, NoOwner(lists), NoOwner(items), id, received) :
          received \in UpdateListItemArgs(arg)}

\* C26: what createListItem, listItem and updateListItem answer and store
\* does not depend on which authenticated user asks nor on the owners of the
\* List and the Item: any of them may join a List of one user with an Item of
\* another and read or update any ListItem by its id.
ListItemOpsIgnoreRequesterAndOwners ==
  [][ ( /\ last'.op \in {"createListItem", "listItem", "updateListItem"}
        /\ JwtStrategy_validate(users, last'.user).kind = "Ok" )
      => [res |-> last'.res, listItems |-> listItems']
           \in JoinOutcomes(last'.op, last'.id, last'.arg)
    ]_vars

\* C26 witness: user 2 updated a ListItem that joins a list of user 1 with
\* an item of user 2.
ForeignJoinUpdated ==
  /\ last.op = "updateListItem"
  /\ last.user = 2
  /\ last.res.kind = "Ok"
  /\ last.res.data # Null
  /\ lists[last.res.data.list].user = 1
  /\ items[last.res.data.item].user = 2

\* Every row of the seed data is stored.
SeedStored ==
  /\ \A i \in DOMAIN SEED_USERS :
       \E id \in DOMAIN users : users[id].email = SEED_USERS[i].email
  /\ \A i \in DOMAIN SEED_ITEMS :
       \E id \in DOMAIN items : items[id].name = SEED_ITEMS[i].name
  /\ \A i \in DOMAIN SEED_LIST :
       \E id \in DOMAIN lists : lists[id].name = SEED_LIST[i].name

\* C27 as claimed: when executeSeed has resolved to true the seed is
\* complete: the seed users, items and lists are stored, the first list
\* holds a ListItem for every item, and no creation of a ListItem is in
\* flight or has failed.
SeedTrueMeansComplete ==
  ( /\ calls[SeedRequest].pc = "done"
    /\ calls[SeedRequest].at = "return" )
  => /\ SeedStored
     /\ \A id \in DOMAIN items :
          \E k \in DOMAIN listItems :
            listItems[k].item = id /\ listItems[k].list = calls[SeedRequest].arg.list
     /\ \A r \in Requests :
          /\ calls[r].pc \in {"idle", "done"}
          /\ calls[r].pc = "done" => calls[r].res.kind = "Ok"

\* The stored row holds every value that the input supplies.
Written(row, arg) ==
  /\ arg.quantity # Absent => row.quantity = arg.quantity[1]
  /\ arg.completed # Absent => row.completed = arg.completed[1]
  /\ arg.listId # Absent => row.list = arg.listId[1]
  /\ arg.itemId # Absent => row.item = arg.itemId[1]

\* C28: update is a write and then a reload.  Of two updates of one ListItem
\* in flight, after each write that is applied the stored record holds the
\* values of that write, whatever the other has written before, and a
\* reload writes nothing and answers with the record as stored when it runs,
\* which need not be what its own call wrote.
StoredIsTheLastWrite ==
  [][ \A r \in Requests :
        /\ (calls[r].pc = "execute" /\ calls'[r].pc = "findOne"
              /\ calls[r].id \in DOMAIN listItems)
           => /\ calls[r].id \in DOMAIN listItems'
              /\ Written(listItems'[calls[r].id], calls[r].arg)
        /\ (calls[r].pc = "findOne" /\ calls'[r].pc = "done")
           => /\ listItems' = listItems
              /\ calls'[r].res = ListItemService_findOne(listItems, calls[r].id)
    ]_vars

\* C28 witness: request 1 set the list of ListItem 1 and was answered with
\* another list, the one that request 2 wrote in between; the stored record
\* holds the write of request 2.
AnsweredWithTheOtherWrite ==
  /\ calls[1].pc = "done" /\ calls[1].at = "findOne"
  /\ calls[1].arg.listId # Absent
  /\ calls[1].res.data # Null
  /\ calls[1].res.data.list # calls[1].arg.listId[1]
  /\ calls[2].pc \in {"findOne", "done"} /\ calls[2].at # "execute"
  /\ calls[2].arg.listId # Absent
  /\ 1 \in DOMAIN listItems
  /\ listItems[1].list = calls[2].arg.listId[1]

\* What a user observes of the lists: the answer of list for every id, the
\* pages that lists can return, and the count.
ListsObservedBy(ls, u) ==
  [list |-> [id \in OwnedIds |-> ListsService_findOne(ls, id, u)],
   lists |-> [pa \in PaginationArgs |->
                ListsService_findAll(ls, u, pa, [search |-> Absent])],
   listCount |-> ListsService_listCountByUser(ls, u)]

\* The same for the items.
ItemsObservedBy(its, u) ==
  [item |-> [id \in OwnedIds |-> ItemsService_findOne(its, id, u)],
   items |-> [pa \in PaginationArgs |->
                ItemsService_findAll(its, u, pa, [search |-> Absent])],
   itemCount |-> ItemsService_itemCountByUser(its, u)]

OwnerOps ==
  {"createList", "updateList", "removeList", "createItem", "updateItem", "removeItem"}

\* C29: no createList, updateList, removeList, createItem, updateItem or
\* removeItem that a user asks for through the resolvers changes what another
\* user observes through list, lists, item, items and the two counts.
OthersObserveTheSame ==
  [][ last'.op \in OwnerOps =>
        \A u \in DOMAIN users \ {last'.user} :
          /\ lists' # lists => ListsObservedBy(lists', u) = ListsObservedBy(lists, u)
          /\ items' # items => ItemsObservedBy(items', u) = ItemsObservedBy(items, u)
    ]_vars

\* C29 witness: user 2 removed a record of their own while user 1 owns one.
RemovedNextToForeignRecord ==
  /\ last.op \in {"removeList", "removeItem"}
  /\ last.user = 2
  /\ last.res.kind = "Ok"
  /\ \/ \E id \in DOMAIN lists : lists[id].user = 1
     \/ \E id \in DOMAIN items : items[id].user = 1

\* C30: the user that token validation attaches to a request carries no
\* password, and a validation leaves the stored hash as it was: the step of
\* a guarded operation does not change the requester's stored password, and
\* a login with the same password still succeeds after it.
ValidationStripsPasswordOnly ==
  [][ \A id \in tokens :
        LET validated == JwtStrategy_validate(users, id) IN
        validated.kind = "Ok" =>
          /\ validated.data.password = Absent
          /\ (last'.op \in GuardedOps /\ last'.user = id) =>
               /\ users'[id].password = users[id].password
               /\ users[id].password = HashSync("p1")
               /\ AuthService_login(users', tokens',
                                    [email |-> users'[id].email, password |-> "p1"]
                                   ).res.kind = "Ok"
    ]_vars

\* C30 witness: a user whose token was validated for an update of a user
\* has logged in after it.
LoginAfterValidation ==
  /\ last.op = "login"
  /\ last.res.kind = "Ok"
  /\ \E id \in DOMAIN users : users[id].lastUpdatedBy = last.res.data.user.id

====
